---- MODULE Spec2Model ----
(***************************************************************************)
(* Model of the LiveChat browser client: the chat controller of            *)
(* src/js/chat.js (peer selection, view rebuild, send flow, attribution    *)
(* cache, polling fallback, inbound transport messages) and the transport  *)
(* client of src/js/websocket.js (socket callbacks, reconnect, staleness). *)
(***************************************************************************)
EXTENDS Integers, Sequences, FiniteSets, TLC

\* ---------------------------------------------------------------- bounds
MaxFeed == 2          \* messages the backend stores in a run
MaxFetches == 2       \* feed fetches in flight at once
MaxSends == 1         \* send requests in flight at once
MaxSockets == 6       \* WebSocket objects created in a run
MaxFrames == 2        \* inbound frames the server puts on the wire in a run
MaxClock == 3600002   \* the clock (ms) of a chat run does not advance past this
MaxWsClock == 18002    \* the clock (ms) of a transport run does not advance past this
MaxApiSockets == 3    \* WebSocket objects created in a run of the transport's interface
MaxApiClock == 6001   \* the clock (ms) of such a run does not advance past this
MaxHandlers == 3       \* handlers registered with on() in a run
MaxLegacySockets == 3  \* WebSocket objects the service of utils.js creates in a run
MaxLegacyTimers == 3   \* reconnect timers that service arms in a run

\* ------------------------------------------------------ program constants
maxReconnectAttempts == 5
reconnectDelay == 3000
staleAfterMs == 15000
RetentionMs == 3600000
NormalClosure == 1000
AbnormalClosure == 1006
PollIntervalMs == 3000

\* ------------------------------------------------------------ value sets
Self == "alice"
Peers == {"bob", "carol"}
Users == {Self} \cup Peers
NoPeer == "<none>"
Undefined == "<undefined>"
NoError == ""
SendErrorText == "Fehler beim Senden der Nachricht"

\* texts typed into the message input, and texts posted by other clients
InputTexts == { <<"h", " ">>, <<"y">>, <<" ">> }
ForeignTexts == { <<" ", "h">> }

\* clock steps of the chat runs and of the transport runs
ChatDeltas == {3600000, 3600001}
WsDeltas == {3000, 15001}

CloseCodes == {NormalClosure, AbnormalClosure}
SocketIds == 1..MaxSockets

VARIABLES
    currentUser,        \* ChatManager.currentUser.username
    currentRecipient,   \* ChatManager.currentRecipient.username or NoPeer
    messages,           \* ChatManager.messages: the displayed view
    chatInit,           \* ChatManager.init has run (transport handlers registered)
    messagePollingInterval, \* ChatManager.messagePollingInterval is set
    chatError,          \* text shown in #chat-error
    notified,           \* number of sound/desktop notifications raised
    storage,            \* localStorage: per-user cache partitions
    legacyCache,        \* localStorage has the key 'sent_messages_cache'
    feed,               \* the backend's global message feed
    fetches,            \* API.getMessages requests in flight
    sends,              \* API.sendMessage requests in flight
    now,                \* Date.now()
    ws,                 \* WebSocketService.ws (0 = null)
    sock,               \* readyState of every WebSocket object created
    sockCount,          \* number of WebSocket objects created
    connected,          \* WebSocketService.connected
    reconnectAttempts,  \* WebSocketService.reconnectAttempts
    lastMessageAt,      \* WebSocketService.lastMessageAt
    timers,             \* pending setTimeout(() => this.connect()) due times
    emitCount,          \* how often each event name was passed to emit()
    lastEmits,          \* the emit() calls of the latest socket callback
    sent,               \* frames handed to socket.send, per socket
    wire,               \* frames the server has sent, not yet delivered
    pushed,             \* number of other frames the server has sent
    apiResult,          \* the latest apiRequest call: its inputs and how it settled
    calls,              \* the handlers the latest socket callback called, in order
    eventHandlers,      \* WebSocketService.eventHandlers, in registration order
    legacy              \* the WebSocketService object of utils.js and its sockets and timers

chatVars == <<currentUser, currentRecipient, messages, chatInit, messagePollingInterval, chatError,
              notified, storage, legacyCache, feed, fetches, sends>>
wsVars == <<ws, sock, sockCount, connected, reconnectAttempts, lastMessageAt,
            timers, emitCount, lastEmits, calls, sent, wire,
            pushed>>
vars == <<chatVars, wsVars, now, apiResult, eventHandlers, legacy>>

\* ------------------------------------------------------------ text, users
RECURSIVE TrimLeft(_)
TrimLeft(s) ==
    IF s = <<>> THEN s
    ELSE IF Head(s) = " " THEN TrimLeft(Tail(s)) ELSE s

RECURSIVE TrimRight(_)
TrimRight(s) ==
    IF s = <<>> THEN s
    ELSE IF s[Len(s)] = " " THEN TrimRight(SubSeq(s, 1, Len(s) - 1)) ELSE s

\* String.prototype.trim
Trim(s) == TrimRight(TrimLeft(s))

\* user.id || user._id
UserId(u) == <<"id", u>>

\* `msg_${text.trim()}`
MessageKey(text) == <<"msg_">> \o Trim(text)

\* ------------------------------------------------------- attribution cache
EmptyCache == [k \in {} |-> 0]
Absent == [kind |-> "absent", val |-> EmptyCache]
Corrupt == [kind |-> "corrupt", val |-> EmptyCache]

\* JSON.stringify(cache) as stored by localStorage.setItem
Stringify(cache) == [kind |-> "json", val |-> cache]

\* JSON.parse(localStorage.getItem(key) || '{}') does not throw
Parses(raw) == raw.kind # "corrupt"

\* JSON.parse(localStorage.getItem(key) || '{}')
ParseCache(raw) == IF raw.kind = "json" THEN raw.val ELSE EmptyCache

\* a pruning loop that deletes nothing
PruneNothing(cache, time) == cache

\* a pruning loop with a window of two hours
PruneDoubleWindow(cache, time) ==
    LET twoHoursAgo == time - 2 * RetentionMs
        kept == {k \in DOMAIN cache : ~(cache[k].timestamp < twoHoursAgo)}
    IN  [k \in kept |-> cache[k]]

\* the pruning loop of cacheSentMessage
Prune(cache, time) ==
    LET oneHourAgo == time - RetentionMs
        kept == {k \in DOMAIN cache : ~(cache[k].timestamp < oneHourAgo)}
    IN  [k \in kept |-> cache[k]]

\* a record that keeps the entry a key already has
RecordedKeepFirst(cache, receiverId, text, recipient, time) ==
    LET key == MessageKey(text)
        entry == [receiverId |-> receiverId,
                  recipientUsername |-> recipient,
                  timestamp |-> time]
        put == [k \in DOMAIN cache \cup {key} |->
                    IF k = key /\ key \notin DOMAIN cache THEN entry ELSE cache[k]]
    IN  Prune(put, time)

\* cacheSentMessage: the cache object before it is written back
Recorded(cache, receiverId, text, recipient, time) ==
    LET key == MessageKey(text)
        entry == [receiverId |-> receiverId,
                  recipientUsername |-> recipient,
                  timestamp |-> time]
        put == [k \in DOMAIN cache \cup {key} |->
                    IF k = key THEN entry ELSE cache[k]]
    IN  Prune(put, time)

\* a cacheSentMessage that records into one cache shared by all accounts
CacheSentMessageShared(store, user, receiverId, text, recipient, time) ==
    [u \in DOMAIN store |->
        Stringify(Recorded(ParseCache(store[u]), receiverId, text, recipient, time))]

\* cacheSentMessage(receiverId, text): the new content of localStorage
CacheSentMessage(store, user, receiverId, text, recipient, time) ==
    IF Parses(store[user])
    THEN [store EXCEPT ![user] =
            Stringify(Recorded(ParseCache(store[user]), receiverId, text,
                               recipient, time))]
    ELSE store

\* ------------------------------------------------------------ view builder
\* sentCache[messageKey] names this recipient
IsAttributedTo(cache, text, peer) ==
    LET key == MessageKey(text)
    IN  key \in DOMAIN cache /\ cache[key].recipientUsername = peer

\* a filter that also asks the cache about the peer's messages
KeepPeerIfCached(msg, cache, self, peer) ==
    IF msg.username = peer THEN IsAttributedTo(cache, msg.message, peer)
    ELSE IF msg.username = self THEN IsAttributedTo(cache, msg.message, peer)
    ELSE FALSE

\* a filter that shows every message of the local user
KeepAllOwn(msg, cache, self, peer) ==
    msg.username = peer \/ msg.username = self

\* the filter callback of loadMessages
Keep(msg, cache, self, peer) ==
    IF msg.username = peer THEN TRUE
    ELSE IF msg.username = self THEN IsAttributedTo(cache, msg.message, peer)
    ELSE FALSE

FilterFeed(all, cache, self, peer) ==
    LET Test(m) == Keep(m, cache, self, peer)
    IN  SelectSeq(all, Test)

\* one step of the stable sort: m goes after every element not later than it
RECURSIVE InsertByCreatedAt(_, _)
InsertByCreatedAt(m, s) ==
    IF s = <<>> THEN <<m>>
    ELSE IF s[Len(s)].createdAt <= m.createdAt THEN Append(s, m)
    ELSE Append(InsertByCreatedAt(m, SubSeq(s, 1, Len(s) - 1)), s[Len(s)])

\* this.messages.sort((a, b) => new Date(a.createdAt) - new Date(b.createdAt))
RECURSIVE SortByCreatedAt(_)
SortByCreatedAt(s) ==
    IF s = <<>> THEN <<>>
    ELSE InsertByCreatedAt(s[Len(s)],
                           SortByCreatedAt(SubSeq(s, 1, Len(s) - 1)))

\* the view loadMessages installs for a response
BuildView(all, cache, self, peer) ==
    SortByCreatedAt(FilterFeed(all, cache, self, peer))

\* the recipient captured when the fetch was issued
ResolvePeerAtIssue(fetch) == fetch.issuedFor

\* the recipient loadMessages filters for: read after the await
ResolvePeer(fetch) == currentRecipient

\* ------------------------------------------------------------- helpers
RECURSIVE Reverse(_)
Reverse(s) == IF s = <<>> THEN <<>> ELSE Append(Reverse(Tail(s)), Head(s))

RemoveAt(s, i) == SubSeq(s, 1, i - 1) \o SubSeq(s, i + 1, Len(s))

\* the orders in which the backend may list the feed
FeedOrders(f) == {f, Reverse(f)}

\* ------------------------------------------------------------ wire frames
NoField == "<absent>"
NullVal == [null |-> TRUE]
BadFrame == [bad |-> TRUE]

\* {type: name, data: d}
TypeData(name, d) ==
    [event |-> NoField, type |-> name, payload |-> NullVal, data |-> d,
     message |-> NullVal, user |-> NullVal]

\* {event: name, payload: d}
EventPayload(name, d) ==
    [event |-> name, type |-> NoField, payload |-> d, data |-> NullVal,
     message |-> NullVal, user |-> NullVal]

\* {data: d}: a frame with neither an event nor a type field
Untyped(d) ==
    [event |-> NoField, type |-> NoField, payload |-> NullVal, data |-> d,
     message |-> NullVal, user |-> NullVal]

\* JSON.parse(raw) succeeds
FrameParses(f) == "bad" \notin DOMAIN f

\* an event lookup that prefers the type field
FrameEventTypeFirst(f) == IF f.type # NoField THEN f.type ELSE f.event

\* msg?.event ?? msg?.type
FrameEvent(f) == IF f.event # NoField THEN f.event ELSE f.type

\* a payload lookup that knows the payload field only
FramePayloadField(f) == IF f.payload # NullVal THEN f.payload ELSE f

\* msg?.payload ?? msg?.data ?? msg?.message ?? msg?.user ?? msg
FramePayload(f) ==
    IF f.payload # NullVal THEN f.payload
    ELSE IF f.data # NullVal THEN f.data
    ELSE IF f.message # NullVal THEN f.message
    ELSE IF f.user # NullVal THEN f.user
    ELSE f

\* !event: no event name, or an empty one
NoEvent(event) == event \in {NoField, ""}

\* the switch of handleMessage: the event name passed to emit
EmitName(event) ==
    CASE event = "new_message" -> "message"
      [] event \in {"new_login", "changed_user"} -> "user_joined"
      [] event = "deleted_user" -> "user_left"
      [] event = "changed_message" -> "message_updated"
      [] event = "deleted_message" -> "message_deleted"
      [] OTHER -> event

\* a handleMessage that drops frames without an event name
HandleMessageDropUntyped(f) ==
    IF ~FrameParses(f) THEN <<>>
    ELSE IF NoEvent(FrameEvent(f)) THEN <<>>
    ELSE << <<EmitName(FrameEvent(f)), FramePayload(f)>> >>

\* a handleMessage that reports a frame it cannot parse to the subscribers
HandleMessageSurfaceBad(f) ==
    IF ~FrameParses(f) THEN << <<"error", NullVal>> >>
    ELSE IF NoEvent(FrameEvent(f)) THEN << <<"raw", f>> >>
    ELSE << <<EmitName(FrameEvent(f)), FramePayload(f)>> >>

\* handleMessage(raw): the emit calls it makes
HandleMessage(f) ==
    IF ~FrameParses(f) THEN <<>>
    ELSE IF NoEvent(FrameEvent(f)) THEN << <<"raw", f>> >>
    ELSE << <<EmitName(FrameEvent(f)), FramePayload(f)>> >>

\* message.username of a 'message' payload
PayloadUsername(p) == IF "username" \in DOMAIN p THEN p.username ELSE Undefined

\* this.currentRecipient?.username
RecipientUsername == IF currentRecipient = NoPeer THEN Undefined ELSE currentRecipient

\* handleIncomingMessage: the payload belongs to the open conversation
IsPartOfConversation(p) ==
    PayloadUsername(p) = RecipientUsername \/ PayloadUsername(p) = currentUser

\* handleIncomingMessage(message): the new this.messages
HandleIncomingMessage(view, p) ==
    IF IsPartOfConversation(p) THEN Append(view, p) ELSE view

\* handleIncomingMessage(message): the notifications it raises
IncomingNotifies(p) ==
    IF IsPartOfConversation(p) /\ PayloadUsername(p) = RecipientUsername
    THEN 1 ELSE 0

\* the 'message' payloads among a list of emit calls, seen by chat.js
RECURSIVE DeliverAll(_, _)
DeliverAll(view, emits) ==
    IF emits = <<>> THEN view
    ELSE IF Head(emits)[1] = "message" /\ chatInit
         THEN DeliverAll(HandleIncomingMessage(view, Head(emits)[2]), Tail(emits))
         ELSE DeliverAll(view, Tail(emits))

RECURSIVE NotifyAll(_)
NotifyAll(emits) ==
    IF emits = <<>> THEN 0
    ELSE (IF Head(emits)[1] = "message" /\ chatInit
          THEN IncomingNotifies(Head(emits)[2]) ELSE 0) + NotifyAll(Tail(emits))

\* ---------------------------------------------------------------- transport
\* isConnected()
IsConnected == connected

\* a staleness test that only looks at the connected flag
IsStaleByFlag == ~connected

\* isStale()
IsStale ==
    IF ~connected THEN TRUE
    ELSE IF lastMessageAt = 0 THEN TRUE
    ELSE now - lastMessageAt > staleAfterMs

\* the state of a socket whose close event carried the code
ClosedAs(code) == IF code = NormalClosure THEN "closedClean" ELSE "closed"

\* readyState of a socket object
ReadyState(st) ==
    CASE st = "connecting" -> "CONNECTING"
      [] st = "open" -> "OPEN"
      [] st \in {"closingOpen", "closingConn"} -> "CLOSING"
      [] OTHER -> "CLOSED"

\* a guard that lets connect() through while the socket is still connecting
AlreadyOpen ==
    ws # 0 /\ ReadyState(sock[ws]) = "OPEN"

\* the guard of connect(): a socket is already opening or open
AlreadyConnecting ==
    ws # 0 /\ ReadyState(sock[ws]) \in {"OPEN", "CONNECTING"}

\* the frames of a list that ws.send accepts, when it raises for the frames
\* at the positions in raising
RECURSIVE Transmitted(_, _, _)
Transmitted(frames, raising, i) ==
    IF i > Len(frames) THEN <<>>
    ELSE (IF i \in raising THEN <<>> ELSE <<frames[i]>>)
             \o Transmitted(frames, raising, i + 1)

\* a safeSend that does not look at readyState
SafeSendUnguarded(out, socks, frames, raising) ==
    IF ws # 0
    THEN [out EXCEPT ![ws] = @ \o Transmitted(frames, raising, 1)]
    ELSE out

\* safeSend(obj) for each of a list of frames, given the sockets' states:
\* nothing without an OPEN socket, and a raising ws.send is caught
SafeSendEach(out, socks, frames, raising) ==
    IF ws # 0 /\ ReadyState(socks[ws]) = "OPEN"
    THEN [out EXCEPT ![ws] = @ \o Transmitted(frames, raising, 1)]
    ELSE out

\* safeSend(obj) for each of a list of frames, ws.send raising for none
SafeSendAll(out, socks, frames) == SafeSendEach(out, socks, frames, {})

\* the six handshake frames of onopen
AuthFrames ==
    << <<"event", "auth">>, <<"type", "auth">>,
       <<"event", "authenticate">>, <<"type", "authenticate">>,
       <<"event", "login">>, <<"type", "login">> >>

\* the four frames of wsService.sendMessage(receiverId, text)
MessageFrames(receiverId, text) ==
    << <<"event", "message", "receiverId", receiverId, text>>,
       <<"type", "message", "receiverId", receiverId, text>>,
       <<"event", "message", "to", receiverId, text>>,
       <<"type", "message", "to", receiverId, text>> >>

\* the number of emit(name, ...) calls so far
Emitted(name) == IF name \in DOMAIN emitCount THEN emitCount[name] ELSE 0

RECURSIVE CountEmits(_, _)
CountEmits(count, emits) ==
    IF emits = <<>> THEN count
    ELSE LET n == Head(emits)[1]
             c == IF n \in DOMAIN count THEN count[n] ELSE 0
         IN  CountEmits([k \in DOMAIN count \cup {n} |->
                            IF k = n THEN c + 1 ELSE count[k]], Tail(emits))

\* an emit whose forEach lets the exception of a handler escape
EmitEscapesUncaught(h) == h.throws

\* emit: the exception of the handler h leaves the try block around its call
EmitEscapes(h) == FALSE

\* emit(event, data): the handlers it calls among the registered ones from
\* position i on, and whether an exception leaves emit
RECURSIVE CallHandlers(_, _, _)
CallHandlers(handlers, event, i) ==
    IF i > Len(handlers) THEN [calls |-> <<>>, thrown |-> FALSE]
    ELSE IF handlers[i].event # event THEN CallHandlers(handlers, event, i + 1)
    ELSE IF EmitEscapes(handlers[i]) THEN [calls |-> <<i>>, thrown |-> TRUE]
    ELSE LET rest == CallHandlers(handlers, event, i + 1)
         IN  [calls |-> <<i>> \o rest.calls, thrown |-> rest.thrown]

\* the handlers called by a list of emit calls
RECURSIVE CallsFor(_)
CallsFor(emits) ==
    IF emits = <<>> THEN <<>>
    ELSE CallHandlers(eventHandlers, Head(emits)[1], 1).calls \o CallsFor(Tail(emits))

\* on(event, handler): a subscriber registers a handler that throws or not
On(event, throws) ==
    /\ Len(eventHandlers) < MaxHandlers
    /\ eventHandlers' = Append(eventHandlers, [event |-> event, throws |-> throws])
    /\ UNCHANGED <<chatVars, wsVars, now, apiResult, legacy>>

\* emit(event, data) for each call of a socket callback
EmitAll(emits) ==
    /\ emitCount' = CountEmits(emitCount, emits)
    /\ lastEmits' = emits

\* connect(): the body after the guard creates a WebSocket
Connect ==
    IF AlreadyConnecting
    THEN UNCHANGED <<ws, sock, sockCount>>
    ELSE /\ sockCount < MaxSockets
         /\ sockCount' = sockCount + 1
         /\ ws' = sockCount + 1
         /\ sock' = [sock EXCEPT ![sockCount + 1] = "connecting"]

\* the delay attemptReconnect passes to setTimeout
ReconnectDelayFor(attempt) == reconnectDelay

\* an attemptReconnect() without the cap
AttemptReconnectUncapped ==
    [attempts |-> reconnectAttempts + 1,
     timers |-> Append(timers, now + ReconnectDelayFor(reconnectAttempts + 1)),
     emits |-> <<>>]

\* an attemptReconnect() that counts the attempt and schedules nothing
AttemptReconnectNoTimer ==
    IF reconnectAttempts >= maxReconnectAttempts
    THEN [attempts |-> reconnectAttempts, timers |-> timers,
          emits |-> << <<"reconnect_failed", NullVal>> >>]
    ELSE [attempts |-> reconnectAttempts + 1, timers |-> timers, emits |-> <<>>]

\* an attemptReconnect() that counts the error and the close of a socket
AttemptReconnectCountsTwice ==
    IF reconnectAttempts >= maxReconnectAttempts
    THEN [attempts |-> reconnectAttempts, timers |-> timers,
          emits |-> << <<"reconnect_failed", NullVal>> >>]
    ELSE [attempts |-> reconnectAttempts + 2,
          timers |-> Append(timers, now + ReconnectDelayFor(reconnectAttempts + 1)),
          emits |-> <<>>]

\* attemptReconnect(): new counter, new timers, emit calls
AttemptReconnect ==
    IF reconnectAttempts >= maxReconnectAttempts
    THEN [attempts |-> reconnectAttempts, timers |-> timers,
          emits |-> << <<"reconnect_failed", NullVal>> >>]
    ELSE [attempts |-> reconnectAttempts + 1,
          timers |-> Append(timers, now + ReconnectDelayFor(reconnectAttempts + 1)),
          emits |-> <<>>]

\* an onopen that leaves the reconnect counter as it is
OnOpenKeepCounter ==
    [connected |-> TRUE, reconnectAttempts |-> reconnectAttempts,
     lastMessageAt |-> now]

\* the fields ws.onopen assigns
OnOpenFields ==
    [connected |-> TRUE, reconnectAttempts |-> 0, lastMessageAt |-> now]

\* ws.onopen
SockOpen(s) ==
    /\ sock[s] = "connecting"
    /\ sock' = [sock EXCEPT ![s] = "open"]
    /\ connected' = OnOpenFields.connected
    /\ reconnectAttempts' = OnOpenFields.reconnectAttempts
    /\ lastMessageAt' = OnOpenFields.lastMessageAt
    /\ EmitAll(<< <<"connected", NullVal>> >>)
    /\ calls' = CallHandlers(eventHandlers, "connected", 1).calls
    /\ sent' = IF CallHandlers(eventHandlers, "connected", 1).thrown
               THEN sent
               ELSE SafeSendAll(sent, sock', AuthFrames)
    /\ UNCHANGED <<ws, sockCount, timers, wire, pushed, chatVars, now, apiResult, eventHandlers, legacy>>

\* ws.onmessage with the frame f
OnMessage(s, f) ==
    /\ sock[s] \in {"open", "closingOpen"}
    /\ lastMessageAt' = now
    /\ EmitAll(HandleMessage(f))
    /\ calls' = CallsFor(HandleMessage(f))
    /\ messages' = DeliverAll(messages, HandleMessage(f))
    /\ notified' = notified + NotifyAll(HandleMessage(f))
    /\ UNCHANGED <<ws, sock, sockCount, connected, reconnectAttempts, timers,
                   sent, pushed, now, apiResult, eventHandlers, legacy>>
    /\ UNCHANGED <<currentUser, currentRecipient, chatInit, messagePollingInterval, chatError, storage,
                   legacyCache, feed, fetches, sends>>

\* the server's next frame reaches the current socket
SockMessage ==
    /\ wire # <<>>
    /\ ws # 0
    /\ OnMessage(ws, Head(wire))
    /\ wire' = Tail(wire)

\* ws.onerror
SockError(s) ==
    /\ sock[s] \in {"connecting", "open", "closingConn"}
    /\ sock' = [sock EXCEPT ![s] = "failed"]
    /\ connected' = FALSE
    /\ EmitAll(<< <<"error", NullVal>> >>)
    /\ calls' = CallHandlers(eventHandlers, "error", 1).calls
    /\ wire' = IF s = ws THEN <<>> ELSE wire
    /\ UNCHANGED <<ws, sockCount, reconnectAttempts, lastMessageAt, timers,
                   sent, pushed, chatVars, now, apiResult, eventHandlers, legacy>>

\* an onclose that reconnects after every close
ReconnectOnAnyClose(code) == TRUE

\* onclose: if (event.code !== 1000) this.attemptReconnect()
ShouldReconnect(code) == code # NormalClosure

\* ws.onclose with the close code
SockClose(s, code) ==
    /\ \/ sock[s] \in {"open", "closingOpen"}
       \/ sock[s] = "failed" /\ code = AbnormalClosure
    /\ sock' = [sock EXCEPT ![s] = ClosedAs(code)]
    /\ connected' = FALSE
    /\ LET d == CallHandlers(eventHandlers, "disconnected", 1)
           r == IF ~d.thrown /\ ShouldReconnect(code)
                THEN AttemptReconnect
                ELSE [attempts |-> reconnectAttempts, timers |-> timers,
                      emits |-> <<>>]
       IN  /\ reconnectAttempts' = r.attempts
           /\ timers' = r.timers
           /\ EmitAll(<< <<"disconnected", NullVal>> >> \o r.emits)
           /\ calls' = d.calls \o CallsFor(r.emits)
    /\ wire' = IF s = ws THEN <<>> ELSE wire
    /\ UNCHANGED <<ws, sockCount, lastMessageAt, sent, pushed, chatVars, now, apiResult, eventHandlers, legacy>>

\* the reconnect timer fires: () => this.connect()
TimerFire(i) ==
    /\ i \in 1..Len(timers)
    /\ now >= timers[i]
    /\ timers' = RemoveAt(timers, i)
    /\ Connect
    /\ UNCHANGED <<connected, reconnectAttempts, lastMessageAt, emitCount, lastEmits, calls, sent,
                   wire, pushed, chatVars, now, apiResult, eventHandlers, legacy>>

\* ws.close(1000, 'Client disconnect') on a socket in the state st
CloseCalled(st) ==
    CASE st = "connecting" -> "closingConn"
      [] st = "open" -> "closingOpen"
      [] OTHER -> st

\* disconnect(): close the socket, forget it, clear the connected flag
Disconnect ==
    IF ws = 0
    THEN UNCHANGED <<ws, sock, connected, wire>>
    ELSE /\ sock' = [sock EXCEPT ![ws] = CloseCalled(@)]
         /\ ws' = 0
         /\ connected' = FALSE
         /\ wire' = <<>>

\* wsService.connect() called on the transport
WsConnect ==
    /\ Connect
    /\ UNCHANGED <<connected, reconnectAttempts, lastMessageAt, timers,
                   emitCount, lastEmits, calls, sent, wire, pushed, chatVars, now, apiResult, eventHandlers, legacy>>

\* Date.now() moves on
Advance(d, limit) ==
    /\ now + d <= limit
    /\ now' = now + d
    /\ UNCHANGED <<chatVars, wsVars, apiResult, eventHandlers, legacy>>

\* --------------------------------------------------------------- backend
\* the message record the backend stores for a post
NewMessage(user, text) ==
    [id |-> Len(feed) + 1, username |-> user, message |-> text, createdAt |-> now]

\* API.getMessages() is issued for the recipient p: the backend answers with
\* the feed in some order
IssueFetch(pending, p) ==
    {pending \cup {[resp |-> r, issuedFor |-> p]} : r \in FeedOrders(feed)}

\* the backend announces a stored message to the client's open socket
Broadcast(m) ==
    IF ws # 0 /\ sock[ws] = "open"
    THEN Append(wire, TypeData("new_message", m))
    ELSE wire

\* another client posts a message to the global feed
ForeignPost(u, text) ==
    /\ Len(feed) < MaxFeed
    /\ feed' = Append(feed, NewMessage(u, text))
    /\ wire' = Broadcast(NewMessage(u, text))
    /\ UNCHANGED <<ws, sock, sockCount, connected, reconnectAttempts,
                   lastMessageAt, timers, emitCount, lastEmits, calls, sent, pushed>>
    /\ UNCHANGED <<currentUser, currentRecipient, messages, chatInit, messagePollingInterval, chatError,
                   notified, storage, legacyCache, fetches, sends, now, apiResult, eventHandlers, legacy>>

\* the backend sends some other frame to the client's open socket
ServerFrame(f) ==
    /\ pushed < MaxFrames
    /\ ws # 0 /\ sock[ws] = "open"
    /\ pushed' = pushed + 1
    /\ wire' = Append(wire, f)
    /\ UNCHANGED <<ws, sock, sockCount, connected, reconnectAttempts,
                   lastMessageAt, timers, emitCount, lastEmits, calls, sent, chatVars, now, apiResult, eventHandlers, legacy>>

\* --------------------------------------------------------- chat controller
\* an init() that leaves the legacy key alone
KeepLegacy(present) == present

\* init(): if the legacy key is present, removeItem('sent_messages_cache')
PurgeLegacy(present) == IF present THEN FALSE ELSE present

\* API.getStoredUser().username: the account logged in on this page
StoredUser == currentUser

\* ChatManager.init(): purge the legacy cache, connectWebSocket, startMessagePolling
ChatInit ==
    /\ ~chatInit
    /\ chatInit' = TRUE
    /\ messagePollingInterval' = TRUE
    /\ legacyCache' = PurgeLegacy(legacyCache)
    /\ currentUser' = StoredUser
    /\ Connect
    /\ UNCHANGED <<currentRecipient, messages, chatError, notified, storage,
                   feed, fetches, sends, connected, reconnectAttempts,
                   lastMessageAt, timers, emitCount, lastEmits, calls, sent, wire, pushed, now, apiResult, eventHandlers, legacy>>

\* selectUser(user): set the recipient, then loadMessages()
SelectUser(p) ==
    /\ chatInit
    /\ Cardinality(fetches) < MaxFetches
    /\ currentRecipient' = p
    /\ fetches' \in IssueFetch(fetches, p)
    /\ UNCHANGED <<currentUser, messages, chatInit, messagePollingInterval, chatError, notified, storage,
                   legacyCache, feed, sends, wsVars, now, apiResult, eventHandlers, legacy>>

\* a loadMessages() that appends what it built to the list on display
LoadedViewAppending(store, f) ==
    IF Parses(store[currentUser])
    THEN messages \o BuildView(f.resp, ParseCache(store[currentUser]), currentUser,
                               ResolvePeer(f))
    ELSE messages

\* what loadMessages() leaves in this.messages once the response f has
\* arrived, given the content of localStorage
LoadedViewFrom(store, f) ==
    IF Parses(store[currentUser])
    THEN BuildView(f.resp, ParseCache(store[currentUser]), currentUser,
                   ResolvePeer(f))
    ELSE messages

LoadedView(f) == LoadedViewFrom(storage, f)

\* loadMessages() resumes after the await with the response f
FetchResolve(f) ==
    /\ f \in fetches
    /\ fetches' = fetches \ {f}
    /\ messages' = LoadedView(f)
    /\ UNCHANGED <<currentUser, currentRecipient, chatInit, messagePollingInterval, chatError, notified,
                   storage, legacyCache, feed, sends, wsVars, now, apiResult, eventHandlers, legacy>>

\* API.getMessages() rejects: loadMessages logs and leaves the view alone
FetchReject(f) ==
    /\ f \in fetches
    /\ fetches' = fetches \ {f}
    /\ UNCHANGED <<currentUser, currentRecipient, messages, chatInit, messagePollingInterval, chatError,
                   notified, storage, legacyCache, feed, sends, wsVars, now, apiResult, eventHandlers, legacy>>

\* handleSendMessage up to the await: API.sendMessage(receiverId, text) is issued
SendSubmit(input) ==
    /\ chatInit
    /\ currentRecipient # NoPeer
    /\ Trim(input) # <<>>
    /\ Len(sends) < MaxSends
    /\ sends' = Append(sends, [receiverId |-> UserId(currentRecipient),
                               text |-> Trim(input), status |-> "pending"])
    /\ UNCHANGED <<currentUser, currentRecipient, messages, chatInit, messagePollingInterval, chatError,
                   notified, storage, legacyCache, feed, fetches, wsVars, now, apiResult, eventHandlers, legacy>>

\* the backend handles the POST: it stores the message or rejects the request
ServerHandleSend(i, ok) ==
    /\ i \in 1..Len(sends)
    /\ sends[i].status = "pending"
    /\ IF ok
       THEN /\ Len(feed) < MaxFeed
            /\ feed' = Append(feed, NewMessage(currentUser, sends[i].text))
            /\ wire' = Broadcast(NewMessage(currentUser, sends[i].text))
            /\ sends' = [sends EXCEPT ![i].status = "stored"]
       ELSE /\ feed' = feed
            /\ wire' = wire
            /\ sends' = [sends EXCEPT ![i].status = "rejected"]
    /\ UNCHANGED <<ws, sock, sockCount, connected, reconnectAttempts,
                   lastMessageAt, timers, emitCount, lastEmits, calls, sent, pushed>>
    /\ UNCHANGED <<currentUser, currentRecipient, messages, chatInit, messagePollingInterval, chatError,
                   notified, storage, legacyCache, fetches, now, apiResult, eventHandlers, legacy>>

\* a successful send that records nothing
SendCacheSkip(send) == storage

\* the cache write of a successful send
SendCacheWrite(send) ==
    CacheSentMessage(storage, currentUser, send.receiverId, send.text,
                     currentRecipient, now)

\* handleSendMessage after the await resolved: cache, transport, loadMessages();
\* ws.send raises for the frames at the positions in raising
SendResolveOver(i, raising) ==
    /\ i \in 1..Len(sends)
    /\ sends[i].status = "stored"
    /\ Cardinality(fetches) < MaxFetches
    /\ sends' = RemoveAt(sends, i)
    /\ storage' = SendCacheWrite(sends[i])
    /\ sent' = SafeSendEach(sent, sock,
                            MessageFrames(sends[i].receiverId, sends[i].text), raising)
    /\ fetches' \in IssueFetch(fetches, currentRecipient)
    /\ UNCHANGED <<currentUser, currentRecipient, messages, chatInit, messagePollingInterval, chatError,
                   notified, legacyCache, feed, now, apiResult, eventHandlers, legacy>>
    /\ UNCHANGED <<ws, sock, sockCount, connected, reconnectAttempts,
                   lastMessageAt, timers, emitCount, lastEmits, calls, wire, pushed>>

\* handleSendMessage after the await resolved, every ws.send succeeding
SendResolve(i) == SendResolveOver(i, {})

\* a catch block reached after the cache was already written
SendFailureAfterCaching(i) ==
    [sends |-> RemoveAt(sends, i), storage |-> SendCacheWrite(sends[i]),
     sent |-> sent, chatError |-> SendErrorText]

\* the effects of the catch block of handleSendMessage
SendFailure(i) ==
    [sends |-> RemoveAt(sends, i), storage |-> storage, sent |-> sent,
     chatError |-> SendErrorText]

\* handleSendMessage after the await rejected: the catch block
SendReject(i) ==
    /\ i \in 1..Len(sends)
    /\ sends[i].status = "rejected"
    /\ sends' = SendFailure(i).sends
    /\ storage' = SendFailure(i).storage
    /\ sent' = SendFailure(i).sent
    /\ chatError' = SendFailure(i).chatError
    /\ UNCHANGED <<currentUser, currentRecipient, messages, chatInit, messagePollingInterval, notified,
                   legacyCache, feed, fetches, now, apiResult, eventHandlers, legacy>>
    /\ UNCHANGED <<ws, sock, sockCount, connected, reconnectAttempts,
                   lastMessageAt, timers, emitCount, lastEmits, calls, wire, pushed>>

\* the 5 s timer of showError hides the message
ErrorAutoHide ==
    /\ chatError # NoError
    /\ chatError' = NoError
    /\ UNCHANGED <<currentUser, currentRecipient, messages, chatInit, messagePollingInterval, notified,
                   storage, legacyCache, feed, fetches, sends, wsVars, now, apiResult, eventHandlers, legacy>>

\* ChatManager.destroy(): stopMessagePolling(), wsService.disconnect()
Destroy ==
    /\ chatInit
    /\ messagePollingInterval' = FALSE
    /\ Disconnect
    /\ UNCHANGED <<currentUser, currentRecipient, messages, chatInit, chatError,
                   notified, storage, legacyCache, feed, fetches, sends>>
    /\ UNCHANGED <<sockCount, reconnectAttempts, lastMessageAt, timers,
                   emitCount, lastEmits, calls, sent, pushed, now, apiResult, eventHandlers, legacy>>

\* the accounts that log in on this browser profile
Accounts == {Self, "bob"}

\* logout() and a login as the account u: auth data replaced, page reloaded;
\* the old page's sockets, timers and pending requests are gone, localStorage
\* and the backend keep their content
Relogin(u) ==
    /\ chatInit
    /\ currentUser' = u
    /\ currentRecipient' = NoPeer
    /\ messages' = <<>>
    /\ chatInit' = FALSE
    /\ messagePollingInterval' = FALSE
    /\ chatError' = NoError
    /\ notified' = 0
    /\ fetches' = {}
    /\ sends' = <<>>
    /\ ws' = 0
    /\ sock' = [s \in SocketIds |-> IF sock[s] = "unused" THEN "unused" ELSE "closed"]
    /\ connected' = FALSE
    /\ reconnectAttempts' = 0
    /\ lastMessageAt' = 0
    /\ timers' = <<>>
    /\ emitCount' = EmptyCache
    /\ lastEmits' = <<>>
    /\ calls' = <<>>
    /\ wire' = <<>>
    /\ UNCHANGED <<storage, legacyCache, feed, sockCount, sent, pushed, now, apiResult, eventHandlers, legacy>>

\* a poll condition that only asks for a selected peer
PollWantedAnyPeer == currentRecipient # NoPeer

\* the condition under which a poll tick calls loadMessages()
PollWanted == currentRecipient # NoPeer /\ (~IsConnected \/ IsStale)

\* the setInterval callback of startMessagePolling
PollTick ==
    /\ messagePollingInterval
    /\ PollWanted
    /\ Cardinality(fetches) < MaxFetches
    /\ fetches' \in IssueFetch(fetches, currentRecipient)
    /\ UNCHANGED <<currentUser, currentRecipient, messages, chatInit, messagePollingInterval, chatError,
                   notified, storage, legacyCache, feed, sends, wsVars, now, apiResult, eventHandlers, legacy>>

\* ------------------------------------------------------------------ HTTP
\* texts are sequences of pieces; text.includes(part) for the parts the code
\* looks for, each of which is one piece of the texts it occurs in
Includes(text, part) == \E i \in 1..Len(text) : text[i] = part

\* the endpoints of api.config.js the page requests
LoginEndpoint == <<"/auth", "/login">>
RegisterEndpoint == <<"/auth", "/register">>
UsersEndpoint == <<"/user", "s">>
MessagesEndpoint == <<"/messages">>
Endpoints == {LoginEndpoint, RegisterEndpoint, UsersEndpoint, MessagesEndpoint}

\* null, undefined or '' as a message: falsy
NoMessage == <<>>

\* the texts of getUserFriendlyError and apiRequest
WrongCredentialsText == <<"Falscher Benutzername oder Passwort">>
UserNotFoundText == <<"Benutzer nicht gefunden">>
NameTakenText == <<"Benutzername bereits vergeben">>
RegisterInputText == <<"Ungültige Eingabe. Bitte überprüfe deine Daten">>
UpdateInputText == <<"Ungültige Daten. Bitte überprüfe deine Eingabe">>
BadRequestText == <<"Ungültige Anfrage. Bitte überprüfe deine Eingabe">>
UnauthorizedText == <<"Nicht autorisiert. Bitte melde dich erneut an">>
ForbiddenText == <<"Zugriff verweigert">>
NotFoundText == <<"Ressource nicht gefunden">>
ConflictText == <<"Konflikt: Die Ressource existiert bereits">>
InvalidDataText == <<"Ungültige Daten">>
TooManyText == <<"Zu viele Anfragen. Bitte warte einen Moment">>
ServerErrorText == <<"Serverfehler. Bitte versuche es später erneut">>
BadGatewayText == <<"Server nicht erreichbar. Bitte versuche es später erneut">>
UnavailableText == <<"Service vorübergehend nicht verfügbar">>
GenericText == <<"Ein Fehler ist aufgetreten. Bitte versuche es erneut">>
NoConnectionText ==
    <<"Keine Verbindung zum Server. Bitte überprüfe deine Internetverbindung">>

\* getUserFriendlyError(status, endpoint, defaultMessage)
GetUserFriendlyError(status, endpoint, defaultMessage) ==
    IF Includes(endpoint, "/login") /\ status = 401 THEN WrongCredentialsText
    ELSE IF Includes(endpoint, "/login") /\ status = 404 THEN UserNotFoundText
    ELSE IF Includes(endpoint, "/register") /\ status = 409 THEN NameTakenText
    ELSE IF Includes(endpoint, "/register") /\ status = 400 THEN RegisterInputText
    ELSE IF Includes(endpoint, "/user") /\ Includes(endpoint, "PUT") /\ status = 409
         THEN NameTakenText
    ELSE IF Includes(endpoint, "/user") /\ Includes(endpoint, "PUT") /\ status = 400
         THEN UpdateInputText
    ELSE CASE status = 400 -> BadRequestText
           [] status = 401 -> UnauthorizedText
           [] status = 403 -> ForbiddenText
           [] status = 404 -> NotFoundText
           [] status = 409 -> ConflictText
           [] status = 422 -> InvalidDataText
           [] status = 429 -> TooManyText
           [] status = 500 -> ServerErrorText
           [] status = 502 -> BadGatewayText
           [] status = 503 -> UnavailableText
           [] OTHER -> IF defaultMessage # NoMessage
                          /\ ~Includes(defaultMessage, "HTTP error!")
                       THEN defaultMessage
                       ELSE GenericText

\* a JavaScript error object
Err(name, message) == [name |-> name, message |-> message]
NoThrow == Err("", NoMessage)

\* what fetch() rejects with when no response arrives: a TypeError whose
\* message is the browser's (Chromium, Firefox, WebKit)
NetworkErrors ==
    {Err("TypeError", <<"Failed to ", "fetch">>),
     Err("TypeError", <<"NetworkError when attempting to ", "fetch", " resource.">>),
     Err("TypeError", <<"Load failed">>)}

\* response bodies: text that is not JSON, the JSON value null, or a JSON
\* object with a message property
Bodies ==
    {[json |-> "unparsable", message |-> NoMessage],
     [json |-> "null", message |-> NoMessage],
     [json |-> "object", message |-> NoMessage],
     [json |-> "object", message |-> <<"HTTP error!", " status: 504">>],
     [json |-> "object", message |-> <<"upstream request timeout">>]}

Statuses == {200, 400, 401, 404, 409, 422, 500, 502, 503, 504}

\* what fetch(url, config) settles with: a rejection or a response
Outcomes ==
    {[rejected |-> TRUE, error |-> e, status |-> 0, body |-> b] :
        e \in NetworkErrors, b \in {[json |-> "unparsable", message |-> NoMessage]}}
    \cup {[rejected |-> FALSE, error |-> NoThrow, status |-> st, body |-> b] :
        st \in Statuses, b \in Bodies}

\* response.ok
Ok(outcome) == ~outcome.rejected /\ outcome.status \in 200..299

\* what the try block of apiRequest throws, NoThrow if it returns data
ThrownInTry(endpoint, outcome) ==
    IF outcome.rejected THEN outcome.error
    ELSE IF Ok(outcome) THEN NoThrow
    ELSE IF outcome.body.json = "null"
         THEN Err("TypeError", <<"Cannot read properties of null (reading 'message')">>)
    ELSE Err("Error", GetUserFriendlyError(outcome.status, endpoint,
                                           outcome.body.message))

\* the catch block of apiRequest: what it throws for the error it caught
CatchRethrows(error) ==
    IF error.name = "TypeError" /\ Includes(error.message, "fetch")
    THEN Err("Error", NoConnectionText)
    ELSE error

\* apiRequest(endpoint, options) once fetch has settled with the outcome
ApiRequest(endpoint, outcome) ==
    LET e == ThrownInTry(endpoint, outcome)
    IN  [made |-> TRUE, endpoint |-> endpoint, outcome |-> outcome,
         returned |-> (e = NoThrow),
         thrown |-> IF e = NoThrow THEN NoThrow ELSE CatchRethrows(e)]

\* no request has been made yet
NoRequest ==
    [made |-> FALSE, endpoint |-> MessagesEndpoint,
     outcome |-> [rejected |-> FALSE, error |-> NoThrow, status |-> 200,
                  body |-> [json |-> "unparsable", message |-> NoMessage]],
     returned |-> FALSE, thrown |-> NoThrow]

\* some caller awaits apiRequest(endpoint, ...) and fetch settles
CallApi(endpoint, outcome) ==
    /\ apiResult' = ApiRequest(endpoint, outcome)
    /\ UNCHANGED <<chatVars, wsVars, now, eventHandlers, legacy>>

\* ------------------------------------------- the WebSocketService of utils.js
LegacySocketIds == 1..MaxLegacySockets

\* the state the constructor leaves, with no socket and no timer yet
LegacyConstructed ==
    [ws |-> 0, reconnectAttempts |-> 0, reconnectTimer |-> 0, isConnecting |-> FALSE,
     sock |-> [s \in LegacySocketIds |-> "unused"], sockCount |-> 0,
     pending |-> {}, timerCount |-> 0]

\* clearTimeout(handle): the pending timers without the one of the handle
ClearTimeout(pending, handle) == {t \in pending : t.id # handle}

\* a scheduleReconnect that arms a timer without clearing the previous one
ScheduleReconnectNoClear(l) ==
    IF l.reconnectAttempts >= maxReconnectAttempts THEN l
    ELSE LET id == l.timerCount + 1
             attempts == l.reconnectAttempts + 1
         IN  [l EXCEPT !.pending = @ \cup {[id |-> id, delay |-> reconnectDelay * attempts]},
                       !.reconnectAttempts = attempts,
                       !.reconnectTimer = id,
                       !.timerCount = id]

\* scheduleReconnect(token)
ScheduleReconnect(l) ==
    IF l.reconnectAttempts >= maxReconnectAttempts THEN l
    ELSE LET id == l.timerCount + 1
             attempts == l.reconnectAttempts + 1
             cleared == IF l.reconnectTimer # 0
                        THEN ClearTimeout(l.pending, l.reconnectTimer)
                        ELSE l.pending
         IN  [l EXCEPT !.pending = cleared \cup {[id |-> id, delay |-> reconnectDelay * attempts]},
                       !.reconnectAttempts = attempts,
                       !.reconnectTimer = id,
                       !.timerCount = id]

\* connect(token) of utils.js
LegacyConnected(l) ==
    IF l.isConnecting \/ (l.ws # 0 /\ l.sock[l.ws] = "open") THEN l
    ELSE [l EXCEPT !.isConnecting = TRUE,
                   !.ws = l.sockCount + 1,
                   !.sockCount = l.sockCount + 1,
                   !.sock[l.sockCount + 1] = "connecting"]

\* some caller calls connect(token)
LegacyConnect ==
    /\ legacy.sockCount < MaxLegacySockets
    /\ legacy' = LegacyConnected(legacy)
    /\ UNCHANGED <<chatVars, wsVars, now, apiResult, eventHandlers>>

\* a pending reconnect timer runs its callback: this.connect(token)
LegacyTimerFired ==
    /\ legacy.sockCount < MaxLegacySockets
    /\ \E t \in legacy.pending :
          legacy' = LegacyConnected([legacy EXCEPT !.pending = @ \ {t}])
    /\ UNCHANGED <<chatVars, wsVars, now, apiResult, eventHandlers>>

\* handleOpen
LegacyOpen(s) ==
    /\ legacy.sock[s] = "connecting"
    /\ legacy' = [legacy EXCEPT !.sock[s] = "open",
                                !.isConnecting = FALSE,
                                !.reconnectAttempts = 0]
    /\ UNCHANGED <<chatVars, wsVars, now, apiResult, eventHandlers>>

\* handleError
LegacyError(s) ==
    /\ legacy.sock[s] \in {"connecting", "open", "closingConn"}
    /\ legacy' = [legacy EXCEPT !.sock[s] = "failed", !.isConnecting = FALSE]
    /\ UNCHANGED <<chatVars, wsVars, now, apiResult, eventHandlers>>

\* handleClose with the close code; token: localStorage still holds the token
LegacyClose(s, code, token) ==
    /\ \/ legacy.sock[s] \in {"open", "closingOpen"}
       \/ legacy.sock[s] = "failed" /\ code = AbnormalClosure
    /\ legacy.timerCount < MaxLegacyTimers
    /\ LET closed == [legacy EXCEPT !.sock[s] = "closed",
                                    !.isConnecting = FALSE,
                                    !.ws = 0]
       IN  legacy' = IF code # NormalClosure /\ token
                     THEN ScheduleReconnect(closed) ELSE closed
    /\ UNCHANGED <<chatVars, wsVars, now, apiResult, eventHandlers>>

\* disconnect() of utils.js
LegacyDisconnect ==
    /\ LET cleared == IF legacy.reconnectTimer # 0
                      THEN [legacy EXCEPT !.pending = ClearTimeout(@, legacy.reconnectTimer),
                                          !.reconnectTimer = 0]
                      ELSE legacy
           closed == IF cleared.ws # 0
                     THEN [cleared EXCEPT !.sock[cleared.ws] = CloseCalled(@), !.ws = 0]
                     ELSE cleared
       IN  legacy' = [closed EXCEPT !.reconnectAttempts = 0, !.isConnecting = FALSE]
    /\ UNCHANGED <<chatVars, wsVars, now, apiResult, eventHandlers>>

\* ------------------------------------------------------------ specifications
\* the state of a freshly loaded page, localStorage left open
Constructed ==
    /\ currentUser = Self
    /\ currentRecipient = NoPeer
    /\ messages = <<>>
    /\ chatInit = FALSE
    /\ messagePollingInterval = FALSE
    /\ chatError = NoError
    /\ notified = 0
    /\ legacyCache \in BOOLEAN
    /\ feed = <<>>
    /\ fetches = {}
    /\ sends = <<>>
    /\ now = 1
    /\ ws = 0
    /\ sock = [s \in SocketIds |-> "unused"]
    /\ sockCount = 0
    /\ connected = FALSE
    /\ reconnectAttempts = 0
    /\ lastMessageAt = 0
    /\ timers = <<>>
    /\ emitCount = EmptyCache
    /\ lastEmits = <<>>
    /\ sent = [s \in SocketIds |-> <<>>]
    /\ wire = <<>>
    /\ pushed = 0
    /\ apiResult = NoRequest
    /\ calls = <<>>
    /\ eventHandlers = <<>>
    /\ legacy = LegacyConstructed

\* localStorage.getItem(key) is null for every cache partition
NoCaches == [u \in Users |-> Absent]

\* the partition of the local user holds text that is not JSON
CorruptCache == [NoCaches EXCEPT ![Self] = Corrupt]

Init == Constructed /\ storage = NoCaches

\* a page loaded over a cache partition that may be unparsable
InitStored == Constructed /\ storage \in {NoCaches, CorruptCache}

\* some pending feed fetch resolves, or rejects
LoadMessagesResolved == \E f \in fetches : FetchResolve(f)
LoadMessagesFailed == \E f \in fetches : FetchReject(f)

ChatAdvance == \E d \in ChatDeltas : Advance(d, MaxClock)
WsAdvance == \E d \in WsDeltas : Advance(d, MaxWsClock)

\* the chat controller while the socket is still connecting: selection,
\* rebuilds, sends and polling against a feed other clients post to
Next ==
    \/ ChatInit
    \/ \E p \in Peers : SelectUser(p)
    \/ LoadMessagesResolved
    \/ LoadMessagesFailed
    \/ \E t \in InputTexts : SendSubmit(t)
    \/ \E i \in 1..MaxSends : ServerHandleSend(i, TRUE)
    \/ \E i \in 1..MaxSends : SendResolve(i)
    \/ PollTick
    \/ \E u \in Users, t \in ForeignTexts : ForeignPost(u, t)

Spec == Init /\ [][Next]_vars

\* the send flow with a backend that may reject, over a socket that opens
NextSend ==
    \/ ChatInit
    \/ \E p \in Peers : SelectUser(p)
    \/ LoadMessagesResolved
    \/ \E t \in InputTexts : SendSubmit(t)
    \/ \E i \in 1..MaxSends, ok \in BOOLEAN : ServerHandleSend(i, ok)
    \/ \E i \in 1..MaxSends : SendResolve(i)
    \/ \E i \in 1..MaxSends : SendReject(i)
    \/ ErrorAutoHide
    \/ \E s \in SocketIds : SockOpen(s)

SpecSend == Init /\ [][NextSend]_vars

\* sends and rebuilds while the clock advances past the retention window
NextExpiry ==
    \/ ChatInit
    \/ \E p \in Peers : SelectUser(p)
    \/ LoadMessagesResolved
    \/ \E t \in InputTexts : SendSubmit(t)
    \/ \E i \in 1..MaxSends : ServerHandleSend(i, TRUE)
    \/ \E i \in 1..MaxSends : SendResolve(i)
    \/ ChatAdvance

SpecExpiry == Init /\ [][NextExpiry]_vars

\* rebuilds racing with frames pushed over the open socket
NextPush ==
    \/ ChatInit
    \/ \E p \in Peers : SelectUser(p)
    \/ LoadMessagesResolved
    \/ \E u \in Users, t \in ForeignTexts : ForeignPost(u, t)
    \/ \E s \in SocketIds : SockOpen(s)
    \/ SockMessage
    \/ ChatAdvance

SpecPush == Init /\ [][NextPush]_vars

\* frames the backend sends besides its new_message announcements
SampleMessage == [id |-> 1, username |-> "bob", message |-> <<"h">>, createdAt |-> 1]
WsFrames == {EventPayload("new_message", SampleMessage), BadFrame}

\* some reconnect timer fires
ReconnectTimerFired == \E i \in 1..Len(timers) : TimerFire(i)

\* the transport client: sockets that open, fail and close, reconnect timers,
\* inbound frames, and a clock
NextWs ==
    \/ ChatInit
    \/ \E s \in SocketIds : SockOpen(s)
    \/ \E s \in SocketIds : SockError(s)
    \/ \E s \in SocketIds, code \in CloseCodes : SockClose(s, code)
    \/ ReconnectTimerFired
    \/ \E f \in WsFrames : ServerFrame(f)
    \/ SockMessage
    \/ WsAdvance

SpecWs == Init /\ [][NextWs]_vars

\* selection, rebuilds and sends over a cache partition that may be unparsable
NextStored ==
    \/ ChatInit
    \/ \E p \in Peers : SelectUser(p)
    \/ LoadMessagesResolved
    \/ \E t \in InputTexts : SendSubmit(t)
    \/ \E i \in 1..MaxSends : ServerHandleSend(i, TRUE)
    \/ \E i \in 1..MaxSends : SendResolve(i)
    \/ \E u \in Users, t \in ForeignTexts : ForeignPost(u, t)

SpecStored == InitStored /\ [][NextStored]_vars

\* the polling fallback while the socket never opens: the interval timer keeps
\* firing and every feed fetch is answered
NextPoll ==
    \/ ChatInit
    \/ \E p \in Peers : SelectUser(p)
    \/ LoadMessagesResolved
    \/ PollTick
    \/ \E u \in Users, t \in ForeignTexts : ForeignPost(u, t)

SpecPoll ==
    /\ InitStored
    /\ [][NextPoll]_vars
    /\ WF_vars(PollTick)
    /\ WF_vars(LoadMessagesResolved)

\* a user of the list, which leaves the local user out, is clicked
SelectOther == \E p \in Users \ {currentUser} : SelectUser(p)

\* two accounts taking turns on one browser profile: each selects peers,
\* sends and rebuilds views
NextAccounts ==
    \/ ChatInit
    \/ \E u \in Accounts : Relogin(u)
    \/ SelectOther
    \/ LoadMessagesResolved
    \/ \E t \in InputTexts : SendSubmit(t)
    \/ \E i \in 1..MaxSends : ServerHandleSend(i, TRUE)
    \/ \E i \in 1..MaxSends : SendResolve(i)

SpecAccounts == Init /\ [][NextAccounts]_vars

\* the values a frame carries as its payload: a message object, or null
FramePayloads == {SampleMessage, NullVal}

\* inbound frames in the shapes handleMessage tells apart
FrameSamples ==
    {TypeData("new_message", d) : d \in FramePayloads}
        \cup {EventPayload("new_message", d) : d \in FramePayloads}
        \cup {Untyped(SampleMessage), EventPayload("", SampleMessage),
              TypeData("deleted_user", SampleMessage),
              TypeData("changed_message", SampleMessage),
              EventPayload("typing", SampleMessage), BadFrame}

\* frames of every shape delivered over the open socket
NextFrames ==
    \/ ChatInit
    \/ \E s \in SocketIds : SockOpen(s)
    \/ \E f \in FrameSamples : ServerFrame(f)
    \/ SockMessage

SpecFrames == Init /\ [][NextFrames]_vars

\* the fields handleMessage looks for the payload in, in its order
CandidateFields == <<"payload", "data", "message", "user">>

\* the value a frame carries in a candidate field: it names the field and
\* says how many candidate fields the frame has
Carried(field, present) == [field |-> field, among |-> Cardinality(present)]

\* a frame with the given event and type fields and with the candidate fields
\* at the positions in present
FrameWith(event, type, present) ==
    LET Field(i) == IF i \in present
                    THEN Carried(CandidateFields[i], present) ELSE NullVal
    IN  [event |-> event, type |-> type, payload |-> Field(1), data |-> Field(2),
         message |-> Field(3), user |-> Field(4)]

\* frames with every combination of event, type and candidate fields
PriorityFrames ==
    {FrameWith(e, t, present) :
        e \in {NoField, "typing"}, t \in {NoField, "presence"},
        present \in SUBSET (1..Len(CandidateFields))}

\* frames with several candidate fields delivered over the open socket
NextPriority ==
    \/ ChatInit
    \/ \E s \in SocketIds : SockOpen(s)
    \/ \E f \in PriorityFrames : ServerFrame(f)
    \/ SockMessage

SpecPriority == Init /\ [][NextPriority]_vars

\* the positions among the four frames of a message at which ws.send raises
RaisingSets == {{}, {2}, {1, 2, 3, 4}}

\* the HTTP layer alone: requests to every endpoint, settled in every way
NextHttp == \E endpoint \in Endpoints, outcome \in Outcomes : CallApi(endpoint, outcome)

SpecHttp == Init /\ [][NextHttp]_vars

\* time passes until the earliest pending reconnect timer is due
TimerWait ==
    /\ timers # <<>>
    /\ now < timers[1]
    /\ now' = timers[1]
    /\ UNCHANGED <<chatVars, wsVars, apiResult, eventHandlers, legacy>>

\* the reconnect cycle of the page: sockets open, fail and close; time reaches
\* a pending timer; a due timer runs its callback
NextReconnect ==
    \/ ChatInit
    \/ \E s \in SocketIds : SockOpen(s)
    \/ \E s \in SocketIds : SockError(s)
    \/ \E s \in SocketIds, code \in CloseCodes : SockClose(s, code)
    \/ TimerWait
    \/ ReconnectTimerFired

SpecReconnect ==
    Init /\ [][NextReconnect]_vars /\ WF_vars(TimerWait) /\ WF_vars(ReconnectTimerFired)

\* the events of the socket callbacks that subscribers register handlers for
HandledEvents == {"connected", "disconnected"}

\* subscribers whose handlers may throw, on a transport that opens, closes
\* and reconnects
NextEmit ==
    \/ ChatInit
    \/ \E e \in HandledEvents, throws \in BOOLEAN : On(e, throws)
    \/ \E s \in SocketIds : SockOpen(s)
    \/ \E s \in SocketIds, code \in CloseCodes : SockClose(s, code)
    \/ TimerWait
    \/ ReconnectTimerFired

SpecEmit == Init /\ [][NextEmit]_vars

\* the first click on a user of the list
SelectFirst == currentRecipient = NoPeer /\ \E p \in Peers : SelectUser(p)

\* the poll timer next to a socket that opens, receives frames, falls silent
\* and closes, with one selection and a feed bob posts to
NextPollGate ==
    \/ ChatInit
    \/ SelectFirst
    \/ LoadMessagesResolved
    \/ PollTick
    \/ \E t \in ForeignTexts : ForeignPost("bob", t)
    \/ \E s \in SocketIds : SockOpen(s)
    \/ SockMessage
    \/ \E s \in SocketIds, code \in CloseCodes : SockClose(s, code)
    \/ WsAdvance

SpecPollGate == Init /\ [][NextPollGate]_vars

\* the service of utils.js: connect() and disconnect() called at any time,
\* sockets that open, fail and close, a reconnect timer that fires
NextLegacy ==
    \/ LegacyConnect
    \/ LegacyDisconnect
    \/ LegacyTimerFired
    \/ \E s \in LegacySocketIds : LegacyOpen(s)
    \/ \E s \in LegacySocketIds : LegacyError(s)
    \/ \E s \in LegacySocketIds, code \in CloseCodes, token \in BOOLEAN :
          LegacyClose(s, code, token)

SpecLegacy == Init /\ [][NextLegacy]_vars

\* sends handed to the transport whatever state its socket is in: none,
\* connecting, open, failed, closing, closed
NextWsSend ==
    \/ ChatInit
    \/ Destroy
    \/ \E s \in SocketIds : SockOpen(s)
    \/ \E s \in SocketIds : SockError(s)
    \/ \E s \in SocketIds, code \in CloseCodes : SockClose(s, code)
    \/ SelectUser("bob")
    \/ LoadMessagesResolved
    \/ \E t \in InputTexts : SendSubmit(t)
    \/ \E i \in 1..MaxSends : ServerHandleSend(i, TRUE)
    \/ \E i \in 1..MaxSends, r \in RaisingSets : SendResolveOver(i, r)

SpecWsSend == Init /\ [][NextWsSend]_vars

\* the transport's interface: connect() and disconnect() called at any time,
\* around sockets that open, fail and close, reconnect timers, and a clock
ApiAdvance == Advance(reconnectDelay, MaxApiClock)

\* connect() called by the page, and by a reconnect timer, while the run may
\* still create sockets
ApiConnect == sockCount < MaxApiSockets /\ WsConnect
ApiTimerFired == sockCount < MaxApiSockets /\ ReconnectTimerFired

NextApi ==
    \/ ChatInit
    \/ ApiConnect
    \/ Destroy
    \/ \E s \in SocketIds : SockOpen(s)
    \/ \E s \in SocketIds : SockError(s)
    \/ \E s \in SocketIds, code \in CloseCodes : SockClose(s, code)
    \/ ApiTimerFired
    \/ ApiAdvance

SpecApi == Init /\ [][NextApi]_vars

\* ------------------------------------------------------------------ claims
Occurs(m, view) == \E j \in 1..Len(view) : view[j] = m

OwnCache == ParseCache(storage[currentUser])

\* a feed message of the local user with the body text
OwnMessage(text) ==
    [id |-> 0, username |-> currentUser, message |-> text, createdAt |-> now]

\* C1: a view rebuild keeps every message of the response whose sender is the
\* selected peer, whatever the attribution cache holds.
C1_PeerMessagesKept ==
    [][\A f \in fetches : FetchResolve(f) =>
          \A i \in 1..Len(f.resp) :
              f.resp[i].username = currentRecipient => Occurs(f.resp[i], messages')]_vars

\* a rebuild has shown a message of the selected peer while the cache holds
\* an entry for another peer only
C1_Witness ==
    /\ currentRecipient # NoPeer
    /\ fetches = {}
    /\ \E j \in 1..Len(messages) : messages[j].username = currentRecipient
    /\ DOMAIN OwnCache # {}
    /\ \A k \in DOMAIN OwnCache : OwnCache[k].recipientUsername # currentRecipient

\* C2: after a view rebuild every displayed message of the local user has a
\* cache entry under its trimmed body whose recipient is the selected peer.
C2_OwnMessagesNeedAttribution ==
    [][\A f \in fetches : FetchResolve(f) =>
          \A j \in 1..Len(messages') :
              messages'[j].username = currentUser =>
                  LET k == <<"msg_">> \o Trim(messages'[j].message)
                  IN  /\ k \in DOMAIN OwnCache
                      /\ OwnCache[k].recipientUsername = currentRecipient]_vars

\* a rebuild has shown one own message and hidden another one
C2_Witness ==
    /\ currentRecipient # NoPeer
    /\ \E j \in 1..Len(messages) : messages[j].username = currentUser
    /\ \E i \in 1..Len(feed) :
          /\ feed[i].username = currentUser
          /\ ~Occurs(feed[i], messages)
          /\ \E j \in 1..Len(messages) : messages[j].id > feed[i].id

\* C3: once a send to the peer with id receiverId is recorded, an own feed
\* message with that body is shown by a rebuild for that peer and by a rebuild
\* for no other peer.
C3_RoundTrip ==
    [][\A i \in 1..Len(sends) : SendResolve(i) =>
          \A p \in Peers :
              (BuildView(<<OwnMessage(sends[i].text)>>,
                         ParseCache(storage'[currentUser]), currentUser, p) # <<>>)
              <=> (UserId(p) = sends[i].receiverId)]_vars

\* C4: the cache changes only when a stored send resumes; when a rejected send
\* resumes, the cache, the feed and the frames sent are unchanged, the request
\* is dropped without a new one being issued, and the error text is shown.
Rejected(q) == {j \in 1..Len(q) : q[j].status = "rejected"}

C4_FailedSendLeavesCache ==
    [][/\ Cardinality(Rejected(sends')) < Cardinality(Rejected(sends)) =>
            /\ storage' = storage
            /\ sent' = sent
            /\ feed' = feed
            /\ \E i \in Rejected(sends) : sends' = RemoveAt(sends, i)
            /\ chatError' = SendErrorText
       /\ storage' # storage =>
            \E i \in 1..Len(sends) :
                sends[i].status = "stored" /\ sends' = RemoveAt(sends, i)]_vars

\* a rejected send has been reported while the socket is open and the cache
\* is still empty
C4_Witness ==
    /\ chatError = SendErrorText
    /\ sends = <<>>
    /\ ws # 0 /\ sock[ws] = "open"
    /\ storage[currentUser] = Absent
    /\ feed = <<>>

\* C5 as stated: a rebuild never shows an own message whose cache entry is
\* older than the retention window.
C5_ExpiredNeverAttributes ==
    [][\A f \in fetches : FetchResolve(f) =>
          \A j \in 1..Len(messages') :
              messages'[j].username = currentUser =>
                  LET k == MessageKey(messages'[j].message)
                  IN  k \in DOMAIN OwnCache =>
                          ~(OwnCache[k].timestamp < now - RetentionMs)]_vars

\* C5 (amended): a record removes every entry that is older than the retention
\* window at that time, and an own message under a removed key is then shown
\* for no peer.
C5_RecordPrunesExpired ==
    [][storage' # storage =>
          LET new == ParseCache(storage'[currentUser])
          IN  \A k \in DOMAIN OwnCache :
                  OwnCache[k].timestamp < now - RetentionMs =>
                      /\ k \in DOMAIN new => new[k].timestamp = now
                      /\ k \notin DOMAIN new =>
                            \A t \in InputTexts, p \in Peers :
                                MessageKey(t) = k =>
                                    BuildView(<<OwnMessage(t)>>, new, currentUser, p) = <<>>]_vars

\* an own message was recorded, aged past the window, and a later record has
\* removed its entry
C5_Witness ==
    /\ sends = <<>>
    /\ DOMAIN OwnCache # {}
    /\ \E i \in 1..Len(feed) :
          /\ feed[i].username = currentUser
          /\ feed[i].createdAt < now - RetentionMs
          /\ MessageKey(feed[i].message) \notin DOMAIN OwnCache

C9_NoDuplicateIds ==
    \A i, j \in 1..Len(messages) : i # j => messages[i].id # messages[j].id

\* C10: the displayed view is sorted ascending by createdAt in every state.
C10_ViewSorted ==
    \A i \in 1..(Len(messages) - 1) :
        messages[i].createdAt <= messages[i + 1].createdAt

\* C6: the reconnect counter never exceeds maxReconnectAttempts; an abnormal
\* close that finds the counter at the maximum schedules no reconnect and
\* emits 'reconnect_failed'; that event is emitted at most once, and once it
\* was emitted no timer is pending and no socket is opening or open.
C6_ReconnectGivesUpOnce ==
    /\ [](reconnectAttempts <= maxReconnectAttempts)
    /\ [](Emitted("reconnect_failed") <= 1)
    /\ [](Emitted("reconnect_failed") = 1 =>
            /\ timers = <<>>
            /\ \A s \in SocketIds : sock[s] \notin {"connecting", "open"})
    /\ [][(\E s \in SocketIds : SockClose(s, AbnormalClosure)) =>
            IF reconnectAttempts = maxReconnectAttempts
            THEN /\ timers' = timers
                 /\ Emitted("reconnect_failed")' = Emitted("reconnect_failed") + 1
            ELSE /\ Len(timers') = Len(timers) + 1
                 /\ Emitted("reconnect_failed")' = Emitted("reconnect_failed")]_vars

\* the sixth consecutive abnormal close has happened
C6_Witness ==
    /\ Emitted("reconnect_failed") = 1
    /\ reconnectAttempts = maxReconnectAttempts
    /\ sockCount = maxReconnectAttempts + 1

\* C7: isStale() is true before the first connect; it is false while the
\* transport is connected and less than staleAfterMs has passed since the last
\* frame (or the open), also right after a frame; it is true once more than
\* staleAfterMs has passed.
C7_Staleness ==
    /\ [](sockCount = 0 => IsStale)
    /\ [](connected /\ now - lastMessageAt < staleAfterMs => ~IsStale)
    /\ [](now - lastMessageAt > staleAfterMs => IsStale)
    /\ [][SockMessage /\ connected => ~IsStale']_vars

\* connected, a frame was received, and the window has elapsed since
C7_Witness ==
    /\ connected
    /\ pushed > 0
    /\ wire = <<>>
    /\ now - lastMessageAt > staleAfterMs

\* C11: once disconnect() has run, no WebSocket is created unless connect() is
\* called again; in particular a reconnect timer pending at teardown opens none.
C11_NoSocketAfterDisconnect ==
    [][ws = 0 /\ sockCount > 0 => (WsConnect \/ sockCount' = sockCount)]_vars

\* C12: a connect() that finds the current socket CONNECTING or OPEN, called
\* directly or by a reconnect timer, creates no socket and leaves the socket,
\* the connected flag, the reconnect counter and lastMessageAt unchanged.
C12_ConnectIdempotent ==
    [][(WsConnect \/ ReconnectTimerFired)
         /\ ws # 0 /\ sock[ws] \in {"connecting", "open"} =>
           UNCHANGED <<ws, sock, sockCount, connected, reconnectAttempts,
                       lastMessageAt>>]_vars

\* a reconnect timer is due while the current socket is connecting or open
C12_Witness ==
    /\ ws # 0
    /\ sock[ws] \in {"connecting", "open"}
    /\ \E i \in 1..Len(timers) : timers[i] <= now

\* C13: the k-th consecutive reconnect attempt after an abnormal close is
\* scheduled reconnectDelay * k after the close, for k up to
\* maxReconnectAttempts.
C13_LinearBackoff ==
    [][\A s \in SocketIds :
          SockClose(s, AbnormalClosure) /\ reconnectAttempts < maxReconnectAttempts =>
              timers' = Append(timers, now + reconnectDelay * (reconnectAttempts + 1))]_vars

\* C14: a close event with code 1000 schedules no reconnect, leaves the
\* reconnect counter alone and clears the connected flag; while the current
\* socket is one that closed with code 1000 the transport is disconnected, no
\* timer is pending, and no socket is created.
C14_NormalCloseTerminal ==
    /\ [][(\E s \in SocketIds : SockClose(s, NormalClosure)) =>
            /\ timers' = timers
            /\ reconnectAttempts' = reconnectAttempts
            /\ ~connected']_vars
    /\ [](ws # 0 /\ sock[ws] = "closedClean" => ~connected /\ timers = <<>>)
    /\ [][ws # 0 /\ sock[ws] = "closedClean" =>
            sockCount' = sockCount /\ ws' = ws]_vars

\* a socket opened by a reconnect closed with code 1000, and more than the
\* reconnect delay has passed since
C14_Witness ==
    /\ ws > 1
    /\ sock[ws] = "closedClean"
    /\ now - lastMessageAt > reconnectDelay

\* C15: while a peer stays selected and the transport is disconnected or
\* stale, every feed message of that peer is eventually in the displayed view.
C15_PollingDelivers ==
    \A p \in Peers, i \in 1..MaxFeed :
        (currentRecipient = p /\ i <= Len(feed) /\ feed[i].username = p)
            ~> \/ currentRecipient # p
               \/ ~PollWanted
               \/ i <= Len(feed) /\ Occurs(feed[i], messages)

\* C16: an unparsable cache counts as an empty one: a rebuild installs the
\* view built with the empty cache, and a record leaves an entry for the
\* message in the partition.
C16_CorruptCacheIsEmpty ==
    [][/\ \A f \in fetches : FetchResolve(f) =>
            messages' = BuildView(f.resp, ParseCache(storage[currentUser]),
                                  currentUser, currentRecipient)
       /\ \A i \in 1..Len(sends) : SendResolve(i) =>
            MessageKey(sends[i].text) \in DOMAIN ParseCache(storage'[currentUser])]_vars

\* localStorage with every partition but the local user's emptied
OwnPartitionOnly ==
    [u \in Users |-> IF u = currentUser THEN storage[u] ELSE Absent]

\* C17: a step changes no cache partition but the one of the account that is
\* logged in, and the view a rebuild installs is the one it would install if
\* all other partitions were empty.
C17_PartitionIsolation ==
    [][/\ \A u \in Users \ {currentUser} : storage'[u] = storage[u]
       /\ \A f \in fetches : FetchResolve(f) =>
            messages' = LoadedViewFrom(OwnPartitionOnly, f)]_vars

\* both accounts have recorded the same text for different peers, and the
\* account logged in second has rebuilt a view that shows its own message
C17_Witness ==
    /\ currentUser = "bob"
    /\ \E k \in DOMAIN ParseCache(storage[Self]) \cap DOMAIN OwnCache :
          ParseCache(storage[Self])[k].recipientUsername
              # OwnCache[k].recipientUsername
    /\ \E j \in 1..Len(messages) : messages[j].username = currentUser

\* C18: once init() has run the legacy key 'sent_messages_cache' is absent,
\* and no step creates it.
C18_LegacyCachePurged ==
    /\ [](chatInit => ~legacyCache)
    /\ [][~legacyCache => ~legacyCache']_vars

\* init() has run, and a record and a rebuild have followed it
C18_Witness ==
    /\ chatInit
    /\ ~legacyCache
    /\ DOMAIN OwnCache # {}
    /\ messages # <<>>

\* the frame being delivered is a new_message frame of either shape around d
NewMessageFrameOf(d) ==
    /\ SockMessage
    /\ Head(wire) \in {TypeData("new_message", d), EventPayload("new_message", d)}

\* C19 as stated: for every D, a new_message frame of either shape makes
\* handleMessage emit exactly one 'message' event with payload D.
C19_BothShapesEmitPayload ==
    [][\A d \in FramePayloads :
          NewMessageFrameOf(d) => lastEmits' = << <<"message", d>> >>]_vars

\* C19 (amended): for every D other than null, a new_message frame of either
\* shape makes handleMessage emit exactly one 'message' event with payload D;
\* for a null D the payload emitted is the frame itself.
C19_BothShapesEmitObject ==
    [][\A d \in FramePayloads :
          NewMessageFrameOf(d) =>
              lastEmits' = << <<"message", IF d = NullVal THEN Head(wire) ELSE d>> >>]_vars

\* two new_message frames were delivered, the last one around a message object
C19_Witness ==
    /\ Emitted("message") = 2
    /\ lastEmits = << <<"message", SampleMessage>> >>
    /\ wire = <<>>

\* C20: a frame that parses and has neither an event nor a type field makes
\* handleMessage emit one 'raw' event carrying the frame, and nothing else.
C20_UntypedFrameIsRaw ==
    [][SockMessage /\ FrameParses(Head(wire))
         /\ Head(wire).event = NoField /\ Head(wire).type = NoField =>
            /\ lastEmits' = << <<"raw", Head(wire)>> >>
            /\ Emitted("raw")' = Emitted("raw") + 1
            /\ \A n \in DOMAIN emitCount' \ {"raw"} : Emitted(n)' = Emitted(n)
            /\ messages' = messages]_vars

\* an untyped frame was the last frame delivered
C20_Witness ==
    /\ Emitted("raw") > 0
    /\ lastEmits = << <<"raw", Untyped(SampleMessage)>> >>

\* C21: a frame that does not parse makes the socket callback emit nothing
\* and leaves the socket, the connected flag, the reconnect counter and the
\* chat view unchanged.
C21_BadFrameDropped ==
    [][SockMessage /\ ~FrameParses(Head(wire)) =>
          /\ lastEmits' = <<>>
          /\ emitCount' = emitCount
          /\ UNCHANGED <<ws, sock, sockCount, connected, reconnectAttempts, timers>>
          /\ messages' = messages]_vars

\* an unparsable frame was the last frame delivered to the open socket
C21_Witness ==
    /\ connected
    /\ ws # 0 /\ sock[ws] = "open"
    /\ pushed > 0
    /\ wire = <<>>
    /\ lastEmits = <<>>

\* C22: handing a message to the transport never makes the caller fail: the
\* send flow goes on to its rebuild and shows no error; without a socket or
\* with a socket that is not OPEN nothing is transmitted; the transport state
\* is unchanged; the frames for which ws.send raises are left out and the
\* others are transmitted.
C22_SendNeverThrows ==
    [][\A i \in 1..Len(sends), r \in RaisingSets :
          SendResolveOver(i, r) =>
              /\ chatError' = chatError
              /\ fetches' \in IssueFetch(fetches, currentRecipient)
              /\ UNCHANGED <<ws, sock, sockCount, connected, reconnectAttempts,
                             lastMessageAt, timers, emitCount>>
              /\ (ws = 0 \/ sock[ws] # "open") => sent' = sent
              /\ (ws # 0 /\ sock[ws] = "open") =>
                    Len(sent'[ws]) = Len(sent[ws]) + 4 - Cardinality(r)]_vars

\* a send was recorded and its rebuild issued while no socket has ever been
\* OPEN, and the transport has no socket now
C22_Witness ==
    /\ ws = 0
    /\ sockCount > 0
    /\ sends = <<>>
    /\ DOMAIN OwnCache # {}
    /\ fetches # {}
    /\ chatError = NoError
    /\ \A s \in SocketIds : sent[s] = <<>>

\* C23: when a socket opens, the reconnect counter becomes 0, lastMessageAt
\* becomes the current time, the connected flag becomes true, and exactly one
\* 'connected' event is emitted to the subscribers.
C23_OpenResets ==
    [][\A s \in SocketIds :
          SockOpen(s) =>
              /\ reconnectAttempts' = 0
              /\ lastMessageAt' = now
              /\ connected' = TRUE
              /\ lastEmits' = << <<"connected", NullVal>> >>
              /\ Emitted("connected")' = Emitted("connected") + 1]_vars

\* a socket created by a reconnect attempt has opened, at a later time than
\* the first
C23_Witness ==
    /\ ws >= 2 /\ sock[ws] = "open"
    /\ connected
    /\ reconnectAttempts = 0
    /\ lastMessageAt = now
    /\ now >= reconnectDelay
    /\ Emitted("connected") >= 1
    /\ lastEmits = << <<"connected", NullVal>> >>

\* C24: once the current socket has closed abnormally with the reconnect
\* attempts not used up (no 'reconnect_failed' emitted) and without a
\* disconnect(), a further socket is eventually created.
C24_ReconnectEventually ==
    \A n \in 0..(MaxSockets - 1) :
        (/\ ws # 0 /\ sock[ws] = "closed"
         /\ Emitted("reconnect_failed") = 0
         /\ sockCount = n)
            ~> (sockCount > n)

\* a second reconnect attempt in a row has created its socket
C24_Witness ==
    /\ sockCount >= 3
    /\ ws = sockCount /\ sock[ws] = "connecting"
    /\ reconnectAttempts >= 2
    /\ timers = <<>>
    /\ now >= 2 * reconnectDelay

\* the message of the local user with the body text is at some position of
\* the list
HasOwn(list, text) ==
    \E j \in 1..Len(list) :
        list[j].username = currentUser /\ Trim(list[j].message) = text

\* C25: the step that follows a successful Gateway send finds the message
\* already stored in the feed, records its attribution, hands its frames to an
\* open socket, and issues the rebuild; the rebuild it issues, reading the
\* cache as this step leaves it, shows the message.
C25_SendOrder ==
    [][\A i \in 1..Len(sends) :
          SendResolve(i) =>
              /\ HasOwn(feed, sends[i].text)
              /\ IsAttributedTo(ParseCache(storage'[currentUser]), sends[i].text,
                                currentRecipient)
              /\ (ws # 0 /\ sock[ws] = "open") =>
                    sent'[ws] = sent[ws] \o MessageFrames(sends[i].receiverId,
                                                          sends[i].text)
              /\ \E f \in fetches' :
                    f.resp \in FeedOrders(feed) /\ f.issuedFor = currentRecipient
              /\ \A f \in fetches' :
                    (f.resp \in FeedOrders(feed) /\ f.issuedFor = currentRecipient)
                        => HasOwn(LoadedViewFrom(storage', f), sends[i].text)]_vars

\* a send has gone through all four steps over an open socket: its frames
\* followed the six auth frames and the rebuilt view shows the message
C25_Witness ==
    /\ sends = <<>>
    /\ fetches = {}
    /\ ws # 0 /\ sock[ws] = "open" /\ Len(sent[ws]) = 10
    /\ Len(feed) = 1
    /\ DOMAIN OwnCache # {}
    /\ Len(messages) = 1 /\ messages[1].username = currentUser

\* C26 as stated: while no peer is selected, the displayed message list is
\* empty and no feed fetch is pending.
C26_NoPeerNoView ==
    currentRecipient = NoPeer => (messages = <<>> /\ fetches = {})

\* C27: a rebuild leaves the cache as it is, the view it installs depends on
\* the response, the local user, the selected peer and the cache only (not on
\* the list displayed before), and a second rebuild from the same response in
\* the state the first one leaves installs the same view.
C27_RebuildIdempotent ==
    [][\A f \in fetches :
          FetchResolve(f) =>
              /\ storage' = storage
              /\ messages' = BuildView(f.resp, OwnCache, currentUser, currentRecipient)
              /\ LoadedView(f)' = messages']_vars

\* a view with a message of the local user and a message of the peer is on
\* display, and a rebuild from a response that yields the same view is pending
C27_Witness ==
    /\ Len(messages) = 2
    /\ messages[1].username # messages[2].username
    /\ DOMAIN OwnCache # {}
    /\ \E f \in fetches : LoadedView(f) = messages

\* the texts apiRequest has for a condition
LocalisedTexts ==
    {WrongCredentialsText, UserNotFoundText, NameTakenText, RegisterInputText,
     UpdateInputText, BadRequestText, UnauthorizedText, ForbiddenText,
     NotFoundText, ConflictText, InvalidDataText, TooManyText, ServerErrorText,
     BadGatewayText, UnavailableText, GenericText, NoConnectionText}

\* C28 as stated: a rejected request returns nothing and throws one of the
\* localised texts; invalid credentials, server unavailable, validation
\* failure and network failure get texts of four pairwise disjoint sets, and
\* a network failure never surfaces the message fetch rejected with.
C28_RejectionsLocalised ==
    LET o == apiResult.outcome
        t == apiResult.thrown.message
    IN  (apiResult.made /\ ~Ok(o)) =>
            /\ ~apiResult.returned
            /\ t \in LocalisedTexts
            /\ (~o.rejected /\ o.status = 401 /\ apiResult.endpoint = LoginEndpoint)
                    => t = WrongCredentialsText
            /\ (~o.rejected /\ o.status \in {500, 502, 503})
                    => t \in {ServerErrorText, BadGatewayText, UnavailableText}
            /\ (~o.rejected /\ o.status \in {400, 422})
                    => t \in {BadRequestText, RegisterInputText, InvalidDataText}
            /\ o.rejected => (t = NoConnectionText /\ t # o.error.message)

\* C29 as stated: in every state each displayed message is from the selected
\* peer, or from the local user with a cache entry naming the selected peer.
C29_ViewIsConversation ==
    \A j \in 1..Len(messages) :
        \/ messages[j].username = currentRecipient
        \/ /\ messages[j].username = currentUser
           /\ IsAttributedTo(OwnCache, messages[j].message, currentRecipient)

\* C30 as stated: the cache entry a successful send records names the peer
\* whose id the send passed to the Gateway.
C30_EntryNamesReceiver ==
    [][\A i \in 1..Len(sends) :
          SendResolve(i) =>
              LET entry == ParseCache(storage'[currentUser])[MessageKey(sends[i].text)]
              IN  UserId(entry.recipientUsername) = sends[i].receiverId]_vars

C32_RecordThenPruned ==
    [][\A i \in 1..Len(sends) :
          SendResolve(i) =>
              LET key == MessageKey(sends[i].text)
                  cache == ParseCache(storage'[currentUser])
              IN  /\ key \in DOMAIN cache
                  /\ cache[key] = [receiverId |-> sends[i].receiverId,
                                   recipientUsername |-> currentRecipient,
                                   timestamp |-> now]
                  /\ \A k \in DOMAIN cache :
                        cache[k].timestamp >= now - RetentionMs]_vars

\* two different texts were sent more than an hour apart, and the record of
\* the second has left its own entry only
C32_Witness ==
    /\ sends = <<>>
    /\ Len(feed) = 2
    /\ feed[1].username = currentUser /\ feed[2].username = currentUser
    /\ DOMAIN OwnCache = {MessageKey(feed[2].message)}
    /\ MessageKey(feed[1].message) # MessageKey(feed[2].message)
    /\ OwnCache[MessageKey(feed[2].message)].timestamp = now
    /\ now > RetentionMs

\* C33: the reconnect counter stays within 0..maxReconnectAttempts; a close
\* with a code other than 1000 below the cap adds exactly one to it and arms
\* exactly one timer, at the cap it changes neither; an error event changes
\* neither; an open sets the counter to 0; no other step changes the counter.
C33_CounterCountsReconnects ==
    [][/\ reconnectAttempts' \in 0..maxReconnectAttempts
       /\ \A s \in SocketIds :
            /\ SockError(s) => UNCHANGED <<reconnectAttempts, timers>>
            /\ SockOpen(s) => (reconnectAttempts' = 0 /\ timers' = timers)
            /\ \A code \in CloseCodes :
                  SockClose(s, code) =>
                      IF code # NormalClosure /\ reconnectAttempts < maxReconnectAttempts
                      THEN /\ reconnectAttempts' = reconnectAttempts + 1
                           /\ Len(timers') = Len(timers) + 1
                      ELSE UNCHANGED <<reconnectAttempts, timers>>
       /\ reconnectAttempts' # reconnectAttempts =>
            \E s \in SocketIds :
                SockOpen(s) \/ \E code \in CloseCodes : SockClose(s, code)]_vars

\* five sockets in a row have each raised an error and then closed, and the
\* counter stands at five with the fifth timer pending
C33_Witness ==
    /\ reconnectAttempts = maxReconnectAttempts
    /\ Emitted("error") = maxReconnectAttempts
    /\ Emitted("disconnected") = maxReconnectAttempts
    /\ Emitted("connected") = 0
    /\ Len(timers) = 1

\* C34 as stated: while the current socket is open and the connected flag is
\* set, a close or error event of another socket leaves the flag set and the
\* socket reference in place.
C34_LateEventsIgnored ==
    [][\A s \in SocketIds :
          (/\ ws # 0 /\ s # ws
           /\ sock[ws] = "open" /\ connected
           /\ SockError(s) \/ \E code \in CloseCodes : SockClose(s, code))
              => (connected' /\ ws' = ws)]_vars

\* the candidate fields of a frame that are not null, by position
PresentIn(f) == {i \in 1..Len(CandidateFields) : f[CandidateFields[i]] # NullVal}

\* the payload the priority order selects: the present candidate field with
\* the least position, the frame itself if there is none
PriorityPayload(f) ==
    IF PresentIn(f) = {} THEN f
    ELSE f[CandidateFields[CHOOSE i \in PresentIn(f) : \A j \in PresentIn(f) : i <= j]]

\* C35: for a frame that parses, the event name is the event field if the
\* frame has one and the type field otherwise; when that name is not empty,
\* the event emitted is the one the name maps to and its payload is the first of payload, data,
\* message, user that is not null, the frame itself if all are null.
C35_NormalisationPriority ==
    [][(SockMessage /\ FrameParses(Head(wire))) =>
            LET f == Head(wire)
                name == IF f.event # NoField THEN f.event ELSE f.type
            IN  name \notin {NoField, ""} =>
                    lastEmits' = << <<EmitName(name), PriorityPayload(f)>> >>]_vars

\* a frame named by its event field that carries data, message and user but
\* no payload was delivered, and data was emitted
C35_Witness ==
    /\ Emitted("typing") > 0
    /\ lastEmits = << <<"typing", Carried("data", {2, 3, 4})>> >>
    /\ "presence" \notin DOMAIN emitCount
    /\ wire = <<>>

\* the sequence c lists exactly the handlers registered for the event, in
\* registration order
CallsAllInOrder(c, event) ==
    /\ {c[k] : k \in 1..Len(c)} =
           {i \in 1..Len(eventHandlers) : eventHandlers[i].event = event}
    /\ \A k \in 1..(Len(c) - 1) : c[k] < c[k + 1]

\* C36: whichever registered handlers throw, an open calls every 'connected'
\* handler in registration order and still sends the auth frames, and a close
\* calls every 'disconnected' handler in registration order and still
\* schedules the reconnect when the code is not 1000 and the cap is not reached.
C36_HandlersIsolated ==
    [][\A s \in SocketIds :
          /\ SockOpen(s) =>
                /\ CallsAllInOrder(calls', "connected")
                /\ s = ws => sent'[s] = sent[s] \o AuthFrames
          /\ \A code \in CloseCodes :
                SockClose(s, code) =>
                    /\ CallsAllInOrder(calls', "disconnected")
                    /\ (code # NormalClosure /\ reconnectAttempts < maxReconnectAttempts)
                          => /\ reconnectAttempts' = reconnectAttempts + 1
                             /\ Len(timers') = Len(timers) + 1]_vars

\* the first of two 'disconnected' handlers throws; a close has called both
\* and has scheduled a reconnect
C36_Witness ==
    /\ Len(eventHandlers) >= 2
    /\ eventHandlers[1] = [event |-> "disconnected", throws |-> TRUE]
    /\ eventHandlers[2] = [event |-> "disconnected", throws |-> FALSE]
    /\ calls = <<1, 2>>
    /\ lastEmits = << <<"disconnected", NullVal>> >>
    /\ reconnectAttempts = 1
    /\ Len(timers) = 1

\* C37 as stated: a fetch issued for the selected peer never removes, when it
\* resolves, a displayed message of that peer from the view (the feed only
\* grows, and the step changes neither the peer nor the cache).
C37_DisplayedStays ==
    [][\A f \in fetches :
          (FetchResolve(f) /\ f.issuedFor = currentRecipient) =>
              \A j \in 1..Len(messages) :
                  messages[j].username = currentRecipient
                      => Occurs(messages[j], messages')]_vars

\* C38: a poll tick issues a fetch only if a peer is selected and the
\* transport is not connected, or has never seen activity, or saw its last
\* activity more than staleAfterMs ago.
C38_PollGated ==
    [][PollTick =>
          /\ currentRecipient # NoPeer
          /\ \/ ~connected
             \/ lastMessageAt = 0
             \/ now - lastMessageAt > staleAfterMs]_vars

\* the socket is open and has been silent for more than staleAfterMs, and
\* next to the fetch of the one selection a poll-driven fetch is pending
C38_Witness ==
    /\ ws # 0 /\ sock[ws] = "open" /\ connected
    /\ now - lastMessageAt > staleAfterMs
    /\ currentRecipient # NoPeer
    /\ Cardinality(fetches) = 2

\* C39: in the service of utils.js at most one reconnect timer is pending in
\* every state, and a disconnect() leaves no timer pending, no timer handle
\* and the attempt counter at 0.
C39_OneLegacyTimer ==
    /\ [](Cardinality(legacy.pending) <= 1)
    /\ [][LegacyDisconnect =>
            /\ legacy'.pending = {}
            /\ legacy'.reconnectTimer = 0
            /\ legacy'.reconnectAttempts = 0]_vars

\* two sockets have closed abnormally one after the other before any timer
\* fired: the second timer is pending and the first was cleared
C39_Witness ==
    /\ legacy.sockCount = 2
    /\ legacy.timerCount = 2
    /\ legacy.reconnectAttempts = 2
    /\ legacy.pending = {[id |-> 2, delay |-> 2 * reconnectDelay]}

\* C40 as stated: a 'message' event whose sender is neither the local user
\* nor the selected peer leaves the displayed list and the notifications as
\* they are, and one whose sender is the selected peer is appended to the list.
C40_ForeignSenderIgnored ==
    [][(SockMessage /\ chatInit) =>
          LET e == HandleMessage(Head(wire))
              p == e[1][2]
              sender == PayloadUsername(p)
          IN  (e # <<>> /\ e[1][1] = "message") =>
                  /\ (sender # currentUser /\ sender # currentRecipient)
                        => (messages' = messages /\ notified' = notified)
                  /\ (currentRecipient # NoPeer /\ sender = currentRecipient)
                        => messages' = Append(messages, p)]_vars

====
